---- MODULE Spec2Model ----
(***************************************************************************)
(* Model of the metric ingestion / query controllers and the routers of    *)
(* health-auto-export-server:                                              *)
(*   server/src/controllers/metrics.ts  getAvailableMetrics, getMetrics,   *)
(*                                      saveMetrics                        *)
(*   server/src/routes/workouts.ts      the workouts router                *)
(*   server/src/routes/metrics.ts       the metrics router                 *)
(* models/Metric (mapMetric, createMetricModel), models/MetricName and     *)
(* utils (parseDate) are not part of the sources at hand; they are         *)
(* modelled from the written specification and marked so where defined.    *)
(***************************************************************************)
EXTENDS Integers, Sequences, FiniteSets, TLC

VARIABLES
  stores,     \* the database: sequence of stores, a store handle is its index
  calls,      \* the saveMetrics invocations, one record per call slot
  unhandled,  \* promise rejections nobody handles: set of <<call, batch>>
  failures,   \* storage faults injected so far
  http,       \* the most recent response of a GET controller
  routed      \* the request a router is dispatching, and the handler chosen

vars == <<stores, calls, unhandled, failures, http, routed>>

(***************************************************************************)
(* Bounds                                                                  *)
(***************************************************************************)
MaxCalls == 2
MaxRecords == 2
MaxSamples == 1
MaxFailures == 1
MaxAtoms == 3
MaxSegments == 2
MaxStoreRecords == 1

None == <<>>
Some(x) == <<x>>

(***************************************************************************)
(* Strings.  TLA+ strings with Len, SubSeq and \o; a character is a string *)
(* of length one.                                                          *)
(***************************************************************************)
CharAt(s, i) == SubSeq(s, i, i)

\* String.prototype.indexOf for a single character, 1-based, 0 when absent.
IndexOf(s, c) ==
  IF \E i \in 1..Len(s) : CharAt(s, i) = c
  THEN CHOOSE i \in 1..Len(s) :
         CharAt(s, i) = c /\ \A j \in 1..(i - 1) : CharAt(s, j) # c
  ELSE 0

\* String.prototype.split(sep) for a one-character separator.
RECURSIVE split(_, _)
split(s, sep) ==
  LET i == IndexOf(s, sep) IN
  IF i = 0 THEN <<s>>
  ELSE <<SubSeq(s, 1, i - 1)>> \o split(SubSeq(s, i + 1, Len(s)), sep)

\* String.prototype.trim (the only white space of the inputs is the blank).
RECURSIVE trim(_)
trim(s) ==
  IF Len(s) > 0 /\ CharAt(s, 1) = " " THEN trim(SubSeq(s, 2, Len(s)))
  ELSE IF Len(s) > 0 /\ CharAt(s, Len(s)) = " " THEN trim(SubSeq(s, 1, Len(s) - 1))
  ELSE s

\* String.prototype.startsWith
startsWith(s, p) == Len(s) >= Len(p) /\ SubSeq(s, 1, Len(p)) = p

\* The characters of the model in UTF-16 code unit order.
CodeUnitOrder == " $,./ABCDEFGHIJKLMNOPQRSTUVWXYZ_abcdefghijklmnopqrstuvwxyz"
CodeUnit(c) == IndexOf(CodeUnitOrder, c)

\* a < b in the order Array.prototype.sort() uses without a comparator.
RECURSIVE StrLess(_, _)
StrLess(a, b) ==
  IF Len(b) = 0 THEN FALSE
  ELSE IF Len(a) = 0 THEN TRUE
  ELSE IF CharAt(a, 1) # CharAt(b, 1) THEN CodeUnit(CharAt(a, 1)) < CodeUnit(CharAt(b, 1))
  ELSE StrLess(SubSeq(a, 2, Len(a)), SubSeq(b, 2, Len(b)))

RECURSIVE InsertSorted(_, _)
InsertSorted(x, seq) ==
  IF seq = <<>> THEN <<x>>
  ELSE IF StrLess(x, Head(seq)) THEN <<x>> \o seq
  ELSE <<Head(seq)>> \o InsertSorted(x, Tail(seq))

\* Array.prototype.sort() of an array of strings.
RECURSIVE sort(_)
sort(seq) == IF seq = <<>> THEN <<>> ELSE InsertSorted(Head(seq), sort(Tail(seq)))

Range(seq) == {seq[i] : i \in 1..Len(seq)}

(***************************************************************************)
(* Metric types and stores                                                 *)
(***************************************************************************)
\* enum MetricName: the statically known types.
BLOOD_PRESSURE == "BloodPressure"
HEART_RATE == "HeartRate"
SLEEP_ANALYSIS == "SleepAnalysis"

\* Handles of the statically bound models.
BloodPressureModel == 1
HeartRateModel == 2
SleepModel == 3

KnownTypes == {BLOOD_PRESSURE, HEART_RATE, SLEEP_ANALYSIS}

NewStore(name, exists) == [name |-> name, docs |-> {}, exists |-> exists]

\* The database after start-up: the collections of the three static models do
\* not exist before their first write; system.profile stands for the reserved
\* collections of the database.
InitialStores ==
  << NewStore(BLOOD_PRESSURE, FALSE), NewStore(HEART_RATE, FALSE),
     NewStore(SLEEP_ANALYSIS, FALSE), NewStore("system.profile", TRUE) >>

Handles(st) == 1..Len(st)

\* The handles that serve metric type `name`.
StoresNamed(st, name) == {h \in Handles(st) : st[h].name = name}

\* createMetricModel(name): the handle of the store of that exact name, created
\* when no store of that name is registered yet.  Returns the database and the
\* handle.
createMetricModel(st, name) ==
  IF StoresNamed(st, name) # {}
  THEN [stores |-> st, h |-> CHOOSE h \in StoresNamed(st, name) : TRUE]
  ELSE [stores |-> Append(st, NewStore(name, TRUE)), h |-> Len(st) + 1]

\* Whether createMetricModel(name) has to create a store (and so can fail).
Creates(st, name) == StoresNamed(st, name) = {}

(***************************************************************************)
(* Entities                                                                *)
(***************************************************************************)
Key(e) == <<e.source, e.date>>

\* The documents a filter {source, date} matches.
Matching(docs, e) == {d \in docs : d.source = e.source /\ d.date = e.date}

\* An update that replaces the document by metric.
SetFieldsReplace(doc, metric) == metric

\* update {$set: metric}: every field of metric is written over the document,
\* fields of the document that metric does not carry stay.
SetFields(doc, metric) ==
  [f \in DOMAIN doc \cup DOMAIN metric |->
     IF f \in DOMAIN metric THEN metric[f] ELSE doc[f]]

\* updateOne as a plain insert (the filter is not consulted).
updateOneInsert(docs, metric) == docs \cup {metric}

\* One updateOne of the bulk write:
\*   { filter: {source, date}, update: {$set: metric}, upsert: true }
\* executed by the storage layer as one atomic single-key operation.  Documents
\* are identified by their content (the _id field is not modelled).
updateOne(docs, metric) ==
  IF Matching(docs, metric) = {}
  THEN docs \cup {metric}
  ELSE LET d == CHOOSE d \in Matching(docs, metric) : TRUE
       IN  (docs \ {d}) \cup {SetFields(d, metric)}

\* metrics.map((metric) => ({updateOne: ...})): one operation per entity, in order.
bulkWriteOps(metrics) == metrics

(***************************************************************************)
(* saveMetrics: mapping and grouping                                       *)
(***************************************************************************)
\* The samples of the ingestion payloads.  E1 and E2 share (source, date) and
\* differ in their other fields; E4 has no source.
E1 == [source |-> "A", date |-> 1, qty |-> 1]
E2 == [source |-> "A", date |-> 1, units |-> 2]
E3 == [source |-> "B", date |-> 1, qty |-> 2]
E4 == [date |-> 1, qty |-> 1]
Samples == {E1, E2, E3, E4}

RECURSIVE SeqsUpTo(_, _)
SeqsUpTo(S, n) ==
  IF n = 0 THEN {<<>>}
  ELSE LET shorter == SeqsUpTo(S, n - 1)
       IN  shorter \cup {Append(q, x) : q \in {r \in shorter : Len(r) = n - 1}, x \in S}

\* The metric names of the payloads; "" is a record without a name.
InputNames == {HEART_RATE, "StepCount", ""}

RawRecords == [name : InputNames, data : SeqsUpTo(Samples, MaxSamples)]

\* ingestData.data.metrics
Payloads == SeqsUpTo(RawRecords, MaxRecords)

\* if (!metricsData): the length is not looked at.
NoMetricsUndefinedOnly(metricsData) == FALSE

\* if (!metricsData || metricsData.length === 0)
NoMetrics(metricsData) == Len(metricsData) = 0

\* mapMetric fails on a record without a name.
mapThrows(metric) == metric.name = ""

RECURSIVE KeepKeyed(_)
KeepKeyed(data) ==
  IF data = <<>> THEN <<>>
  ELSE (IF "source" \in DOMAIN Head(data) /\ "date" \in DOMAIN Head(data)
        THEN <<Head(data)>> ELSE <<>>) \o KeepKeyed(Tail(data))

\* mapMetric(metric): one entity per sample, a sample without source or date is
\* dropped.
mapMetric(metric) == KeepKeyed(metric.data)

\* acc[key] = acc[key] || []; acc[key].push(...mappedMetrics)
\* acc is the object as the sequence of its entries in insertion order.
Push(acc, key, mapped) ==
  IF \E i \in 1..Len(acc) : acc[i].key = key
  THEN [i \in 1..Len(acc) |->
          IF acc[i].key = key THEN [acc[i] EXCEPT !.metrics = @ \o mapped] ELSE acc[i]]
  ELSE Append(acc, [key |-> key, metrics |-> mapped])

\* metricsData.reduce(...): the entries of metricsByType
RECURSIVE groupByType(_, _)
groupByType(metricsData, acc) ==
  IF metricsData = <<>> THEN acc
  ELSE groupByType(Tail(metricsData), Push(acc, Head(metricsData).name, mapMetric(Head(metricsData))))

(***************************************************************************)
(* saveMetrics: launching the bulk writes                                  *)
(***************************************************************************)
\* The switch of saveMetrics with its default falling into the heart rate case.
SaveModelNoDefault(st, key) ==
  CASE key = BLOOD_PRESSURE -> [stores |-> st, h |-> BloodPressureModel]
    [] key = SLEEP_ANALYSIS -> [stores |-> st, h |-> SleepModel]
    [] OTHER                -> [stores |-> st, h |-> HeartRateModel]

\* The switch of saveMetrics: the model a type's bulk write goes to.
SaveModel(st, key) ==
  CASE key = BLOOD_PRESSURE -> [stores |-> st, h |-> BloodPressureModel]
    [] key = HEART_RATE     -> [stores |-> st, h |-> HeartRateModel]
    [] key = SLEEP_ANALYSIS -> [stores |-> st, h |-> SleepModel]
    [] OTHER                -> createMetricModel(st, key)

\* Whether resolving the model of `key` can throw: only creating a store can.
SaveModelCanThrow(st, key) == key \notin KnownTypes /\ Creates(st, key)

\* Object.entries(metricsByType).map(...): entry after entry, the model is
\* resolved and its bulkWrite started.  throwAt is the entry whose model
\* resolution throws (0: none); the batches started before it stay started.
RECURSIVE launch(_, _, _, _, _)
launch(entries, i, st, batches, throwAt) ==
  IF i > Len(entries) THEN [stores |-> st, batches |-> batches, threw |-> FALSE]
  ELSE IF throwAt = i /\ SaveModelCanThrow(st, entries[i].key)
       THEN [stores |-> st, batches |-> batches, threw |-> TRUE]
       ELSE LET m == SaveModel(st, entries[i].key)
            IN  launch(entries, i + 1, m.stores,
                       Append(batches, [name |-> entries[i].key, h |-> m.h,
                                        ops |-> bulkWriteOps(entries[i].metrics),
                                        written |-> 0, st |-> "inflight"]),
                       throwAt)

IdleCall == [st |-> "idle", n |-> 0, batches |-> <<>>, joined |-> FALSE, resp |-> None]

NoData == [success |-> TRUE, error |-> "No metrics data provided"]
Saved(n) == [success |-> TRUE, message |-> <<n, "metrics saved successfully">>]
Failed(msg) == [success |-> FALSE, error |-> msg]

(***************************************************************************)
(* saveMetrics                                                             *)
(***************************************************************************)
Calls == 1..MaxCalls

Init ==
  /\ stores = InitialStores
  /\ calls = [c \in Calls |-> IdleCall]
  /\ unhandled = {}
  /\ failures = 0
  /\ http = None
  /\ routed = None

\* saveMetrics up to its first await (lines 120-196), one synchronous run:
\* the empty check, the reduce that maps and groups, and the map that resolves
\* each type's model and starts its bulkWrite.  An exception in it is caught
\* and returned as the error response.  The call slots are taken in order.
saveMetrics(c, metricsData, throwAt) ==
  /\ calls[c].st = "idle"
  /\ \A d \in Calls : d < c => calls[d].st # "idle"
  /\ UNCHANGED <<unhandled, http, routed>>
  /\ IF NoMetrics(metricsData)
     THEN /\ throwAt = 0
          /\ calls' = [calls EXCEPT ![c] = [IdleCall EXCEPT !.st = "returned", !.resp = Some(NoData)]]
          /\ UNCHANGED <<stores, failures>>
     ELSE IF \E i \in 1..Len(metricsData) : mapThrows(metricsData[i])
     THEN /\ throwAt = 0
          /\ calls' = [calls EXCEPT ![c] =
                         [IdleCall EXCEPT !.st = "returned", !.n = Len(metricsData),
                                          !.resp = Some(Failed("mapMetric"))]]
          /\ UNCHANGED <<stores, failures>>
     ELSE LET entries == groupByType(metricsData, <<>>)
              L == launch(entries, 1, stores, <<>>, throwAt)
          IN  /\ throwAt # 0 => L.threw
              /\ stores' = L.stores
              /\ UNCHANGED failures
              /\ calls' = [calls EXCEPT ![c] =
                   IF L.threw
                   THEN [st |-> "returned", n |-> Len(metricsData), batches |-> L.batches,
                         joined |-> FALSE, resp |-> Some(Failed("createMetricModel"))]
                   ELSE [st |-> "awaiting", n |-> Len(metricsData), batches |-> L.batches,
                         joined |-> TRUE, resp |-> None]]

\* A rejection of batch b of call c: handled when Promise.all holds the promise.
Rejected(c, b) == IF calls[c].joined THEN unhandled ELSE unhandled \cup {<<c, b>>}

\* The storage layer executes the next updateOne of an ordered bulk write; the
\* bulkWrite promise fulfils with the last one.
WriteStep(c, b) ==
  /\ b \in 1..Len(calls[c].batches)
  /\ calls[c].batches[b].st = "inflight"
  /\ calls[c].batches[b].ops # <<>>
  /\ LET batch == calls[c].batches[b]
         metric == Head(batch.ops)
         docs == stores[batch.h].docs
     IN  /\ stores' = [stores EXCEPT ![batch.h].docs = updateOne(docs, metric),
                                     ![batch.h].exists = TRUE]
         /\ calls' = [calls EXCEPT ![c].batches[b] =
                        [batch EXCEPT !.ops = Tail(batch.ops), !.written = @ + 1,
                                      !.st = IF Tail(batch.ops) = <<>> THEN "ok" ELSE "inflight"]]
  /\ UNCHANGED <<unhandled, failures, http, routed>>

\* bulkWrite([]): depending on the driver the promise fulfils with an empty
\* result or rejects (no operations specified).
EmptyBatch(c, b, fulfils) ==
  /\ b \in 1..Len(calls[c].batches)
  /\ calls[c].batches[b].st = "inflight"
  /\ calls[c].batches[b].ops = <<>>
  /\ calls' = [calls EXCEPT ![c].batches[b].st = IF fulfils THEN "ok" ELSE "failed"]
  /\ unhandled' = IF fulfils THEN unhandled ELSE Rejected(c, b)
  /\ UNCHANGED <<stores, failures, http, routed>>

\* The storage layer fails a bulk write that is under way: the operations not
\* yet executed are not executed, the bulkWrite promise rejects.
BatchFail(c, b) ==
  /\ b \in 1..Len(calls[c].batches)
  /\ calls[c].batches[b].st = "inflight"
  /\ calls[c].batches[b].ops # <<>>
  /\ failures < MaxFailures
  /\ failures' = failures + 1
  /\ calls' = [calls EXCEPT ![c].batches[b].st = "failed"]
  /\ unhandled' = Rejected(c, b)
  /\ UNCHANGED <<stores, http, routed>>

\* Promise.any in the place of Promise.all.
AnyFulfilled(call) == \E b \in 1..Len(call.batches) : call.batches[b].st = "ok"

AllFulfilled(call) == \A b \in 1..Len(call.batches) : call.batches[b].st = "ok"
SomeRejected(call) == \E b \in 1..Len(call.batches) : call.batches[b].st = "failed"

\* await Promise.all(saveOperations) and what follows it: fulfilled when every
\* promise is, rejected with the first rejection (the catch block).
Respond(c) ==
  /\ calls[c].st = "awaiting"
  /\ \/ /\ AllFulfilled(calls[c])
        /\ calls' = [calls EXCEPT ![c].st = "returned", ![c].resp = Some(Saved(calls[c].n))]
     \/ /\ SomeRejected(calls[c])
        /\ calls' = [calls EXCEPT ![c].st = "returned", ![c].resp = Some(Failed("bulkWrite"))]
  /\ UNCHANGED <<stores, unhandled, failures, http, routed>>

(***************************************************************************)
(* getAvailableMetrics                                                     *)
(***************************************************************************)
\* db.listCollections(): the names of the collections that exist.
RECURSIVE listCollections(_)
listCollections(st) ==
  IF st = <<>> THEN <<>>
  ELSE (IF Head(st).exists THEN <<Head(st).name>> ELSE <<>>) \o listCollections(Tail(st))

RECURSIVE NotSystem(_)
NotSystem(names) ==
  IF names = <<>> THEN <<>>
  ELSE (IF ~startsWith(Head(names), "system.") THEN <<Head(names)>> ELSE <<>>)
       \o NotSystem(Tail(names))

\* collections.map(col => col.name).filter(name => !name.startsWith('system.')).sort()
AvailableMetrics(st) == sort(NotSystem(listCollections(st)))

getAvailableMetrics(fails) ==
  /\ fails => failures < MaxFailures
  /\ failures' = IF fails THEN failures + 1 ELSE failures
  /\ http' = IF fails
             THEN Some([op |-> "getAvailableMetrics", status |-> 500])
             ELSE Some([op |-> "getAvailableMetrics", status |-> 200,
                        metrics |-> AvailableMetrics(stores)])
  /\ UNCHANGED <<stores, calls, unhandled, routed>>

(***************************************************************************)
(* getMetrics                                                              *)
(***************************************************************************)
\* The texts that parse as dates, by the day they name.
DateTexts == <<"2024-01-01", "2024-01-02", "2024-01-03">>
Days == 1..Len(DateTexts)

\* parseDate(text): the date, or nothing when text is absent or is no date.
parseDate(p) ==
  IF p # None /\ \E d \in Days : DateTexts[d] = p[1]
  THEN Some(CHOOSE d \in Days : DateTexts[d] = p[1])
  ELSE None

\* A bound for each date that parses.
DateQueryPartial(fromDate, toDate) ==
  IF fromDate # None \/ toDate # None
  THEN Some([gte |-> IF fromDate # None THEN fromDate[1] ELSE 0,
             lte |-> IF toDate # None THEN toDate[1] ELSE 99])
  ELSE None

\* if (fromDate && toDate) query.date = {$gte: fromDate, $lte: toDate}
DateQuery(fromDate, toDate) ==
  IF fromDate # None /\ toDate # None
  THEN Some([gte |-> fromDate[1], lte |-> toDate[1]])
  ELSE None

RECURSIVE TrimAll(_)
TrimAll(parts) == IF parts = <<>> THEN <<>> ELSE <<trim(Head(parts))>> \o TrimAll(Tail(parts))

\* .filter(s => s && s !== '$__all')
RECURSIVE KeepSources(_)
KeepSources(parts) ==
  IF parts = <<>> THEN <<>>
  ELSE (IF Head(parts) # "" /\ Head(parts) # "$__all" THEN <<Head(parts)>> ELSE <<>>)
       \o KeepSources(Tail(parts))

\* The source condition without the trim of the entries.
SourceQueryNoTrim(source) ==
  IF source # None /\ source[1] # "" /\ source[1] # "$__all" /\ source[1] # "All"
  THEN LET sources == KeepSources(split(source[1], ","))
       IN  IF Len(sources) > 0 THEN Some(Range(sources)) ELSE None
  ELSE None

\* The source condition of the query: nothing, or the set of sources admitted
\* (one source: exact match; several: $in).
SourceQuery(source) ==
  IF source # None /\ source[1] # "" /\ source[1] # "$__all" /\ source[1] # "All"
  THEN LET sources == KeepSources(TrimAll(split(source[1], ",")))
       IN  IF Len(sources) > 0 THEN Some(Range(sources)) ELSE None
  ELSE None

\* Model.find(query)
find(docs, date, source) ==
  {d \in docs :
     /\ date # None => (date[1].gte <= d.date /\ d.date <= date[1].lte)
     /\ source # None => d.source \in source[1]}

\* The switch of getMetrics: the model the query goes to.
QueryModel(st, selectedMetric) ==
  CASE selectedMetric = BLOOD_PRESSURE -> [stores |-> st, h |-> BloodPressureModel]
    [] selectedMetric = HEART_RATE     -> [stores |-> st, h |-> HeartRateModel]
    [] selectedMetric = SLEEP_ANALYSIS -> [stores |-> st, h |-> SleepModel]
    [] OTHER                           -> createMetricModel(st, selectedMetric)

\* getMetrics with no include and no exclude parameter.  fails: find rejects.
getMetrics(selectedMetric, from, to, source, fails) ==
  LET req == [metric |-> selectedMetric, from |-> from, to |-> to, source |-> source]
  IN
  /\ fails => (failures < MaxFailures /\ selectedMetric # "")
  /\ failures' = IF fails THEN failures + 1 ELSE failures
  /\ UNCHANGED <<calls, unhandled, routed>>
  /\ IF selectedMetric = ""
     THEN /\ http' = Some([op |-> "getMetrics", req |-> req, status |-> 500])
          /\ UNCHANGED stores
     ELSE LET m == QueryModel(stores, selectedMetric)
              query == [date |-> DateQuery(parseDate(from), parseDate(to)),
                        source |-> SourceQuery(source)]
          IN  /\ stores' = m.stores
              /\ http' = IF fails
                         THEN Some([op |-> "getMetrics", req |-> req, status |-> 500])
                         ELSE Some([op |-> "getMetrics", req |-> req, status |-> 200, h |-> m.h,
                                    body |-> find(m.stores[m.h].docs, query.date, query.source)])

(***************************************************************************)
(* Concurrent ingestion                                                    *)
(***************************************************************************)
\* A caller invokes saveMetrics with some payload.
Ingest(c) ==
  /\ calls[c].st = "idle"
  /\ \E metricsData \in Payloads, throwAt \in 0..MaxRecords :
       saveMetrics(c, metricsData, throwAt)

Next ==
  \/ \E c \in Calls : Ingest(c)
  \/ \E c \in Calls, b \in 1..MaxRecords : WriteStep(c, b)
  \/ \E c \in Calls, b \in 1..MaxRecords, fulfils \in BOOLEAN : EmptyBatch(c, b, fulfils)
  \/ \E c \in Calls, b \in 1..MaxRecords : BatchFail(c, b)
  \/ \E c \in Calls : Respond(c)

Spec == Init /\ [][Next]_vars

(***************************************************************************)
(* Store resolution and discovery: ingestion of known and unknown types    *)
(* with plain queries and listings beside it                               *)
(***************************************************************************)
StoreNames == {HEART_RATE, "StepCount", "Weight"}

StorePayloads == SeqsUpTo([name : StoreNames, data : {<<>>, <<E1>>}], MaxStoreRecords)

IngestType(c) ==
  /\ calls[c].st = "idle"
  /\ \E metricsData \in StorePayloads, throwAt \in 0..MaxStoreRecords :
       saveMetrics(c, metricsData, throwAt)

NextStores ==
  \/ \E c \in Calls : IngestType(c)
  \/ \E c \in Calls, b \in 1..MaxRecords : WriteStep(c, b)
  \/ \E c \in Calls, b \in 1..MaxRecords, fulfils \in BOOLEAN : EmptyBatch(c, b, fulfils)
  \/ \E c \in Calls : Respond(c)
  \/ \E name \in StoreNames : getMetrics(name, None, None, None, FALSE)
  \/ getAvailableMetrics(FALSE)

SpecStores == Init /\ [][NextStores]_vars

(***************************************************************************)
(* Queries over a populated store                                          *)
(***************************************************************************)
\* The stored entities of the queries: every source on every day.
QuerySources == {"A", "B", "$__all", "All"}
QueryDocs == {[source |-> s, date |-> d, qty |-> 1] : s \in QuerySources, d \in Days}

\* The values of the source parameter: absent, or a text put together from
\* these pieces.
Atoms == {"A", "B", ",", " ", "$__all", "All"}

RECURSIVE Concat(_)
Concat(parts) == IF parts = <<>> THEN "" ELSE Head(parts) \o Concat(Tail(parts))

SourceParams == {None} \cup {Some(Concat(q)) : q \in SeqsUpTo(Atoms, MaxAtoms)}

\* The values of from and to: absent, no date, or a date.
DateParams == {None, Some("yesterday")} \cup {Some(DateTexts[d]) : d \in Days}

InitQuery ==
  /\ stores = [InitialStores EXCEPT ![HeartRateModel].docs = QueryDocs,
                                    ![HeartRateModel].exists = TRUE]
  /\ calls = [c \in Calls |-> IdleCall]
  /\ unhandled = {}
  /\ failures = 0
  /\ http = None
  /\ routed = None

\* One request per behaviour: a response depends on the request and the stores.
Query ==
  /\ http = None
  /\ \E selectedMetric \in {HEART_RATE, "StepCount", ""}, from \in DateParams,
        to \in DateParams, source \in SourceParams, fails \in BOOLEAN :
       getMetrics(selectedMetric, from, to, source, fails)

List ==
  /\ http = None
  /\ \E fails \in BOOLEAN : getAvailableMetrics(fails)

NextQuery == Query \/ List

SpecQuery == InitQuery /\ [][NextQuery]_vars

(***************************************************************************)
(* The routers                                                             *)
(***************************************************************************)
Route(method, path, handler) == [method |-> method, path |-> path, handler |-> handler]

\* routes/workouts.ts, in registration order
workoutsRouter ==
  << Route("GET", "/types", "getWorkoutTypes"),
     Route("GET", "/sources", "getWorkoutSources"),
     Route("GET", "/", "getWorkouts"),
     Route("GET", "/:id", "getWorkout"),
     Route("GET", "/health", "health") >>

\* routes/metrics.ts, in registration order
metricsRouter ==
  << Route("GET", "/available", "getAvailableMetrics"),
     Route("GET", "/sources", "getSources"),
     Route("GET", "/:selected_metric", "getMetrics") >>

\* the metrics router without the listing of the available metrics
metricsRouterPlain ==
  << Route("GET", "/sources", "getSources"),
     Route("GET", "/:selected_metric", "getMetrics") >>

Routers == {workoutsRouter, metricsRouter, metricsRouterPlain}

\* The segments of a path: what stands between its slashes, empty pieces left
\* out (a trailing slash does not count).
RECURSIVE NonEmpty(_)
NonEmpty(parts) ==
  IF parts = <<>> THEN <<>>
  ELSE (IF Head(parts) # "" THEN <<Head(parts)>> ELSE <<>>) \o NonEmpty(Tail(parts))

Segments(path) == NonEmpty(split(path, "/"))

\* A route segment matches a request segment: a parameter (:name) matches any
\* segment, anything else matches itself.
SegmentMatches(pattern, segment) == CharAt(pattern, 1) = ":" \/ pattern = segment

\* router.get(path, handler) matches a request.
Matches(route, method, path) ==
  LET want == Segments(route.path)
      have == Segments(path)
  IN  /\ route.method = method
      /\ Len(want) = Len(have)
      /\ \A i \in 1..Len(want) : SegmentMatches(want[i], have[i])

\* The router hands the request to the first route registered that matches it;
\* 0 when none does (the request leaves the router unanswered).
dispatch(router, method, path) ==
  IF \E i \in 1..Len(router) : Matches(router[i], method, path)
  THEN CHOOSE i \in 1..Len(router) :
         /\ Matches(router[i], method, path)
         /\ \A j \in 1..(i - 1) : ~Matches(router[j], method, path)
  ELSE 0

\* The request paths: up to MaxSegments of these segments.
PathSegments == {"types", "sources", "health", "available", "42"}

RECURSIVE JoinPath(_)
JoinPath(segments) ==
  IF segments = <<>> THEN "" ELSE "/" \o Head(segments) \o JoinPath(Tail(segments))

Paths == {"/"} \cup {JoinPath(q) : q \in SeqsUpTo(PathSegments, MaxSegments) \ {<<>>}}
        \cup {JoinPath(q) \o "/" : q \in SeqsUpTo(PathSegments, MaxSegments) \ {<<>>}}

\* A request reaches a router.
Receive(router, method, path) ==
  /\ IF routed = None THEN TRUE ELSE routed[1].st = "answered"
  /\ routed' = Some([router |-> router, method |-> method, path |-> path,
                     st |-> "received", handler |-> "", status |-> 0, body |-> ""])
  /\ UNCHANGED <<stores, calls, unhandled, failures, http>>

\* The router dispatches it.  The handler registered for /health answers with
\* status 200 and the text OK; the controllers answer in their own ways.
Dispatch ==
  /\ routed # None /\ routed[1].st = "received"
  /\ LET r == routed[1]
         i == dispatch(r.router, r.method, r.path)
     IN  routed' = Some([r EXCEPT
           !.st = "answered",
           !.handler = IF i = 0 THEN "next" ELSE r.router[i].handler,
           !.status = IF i # 0 /\ r.router[i].handler = "health" THEN 200 ELSE 0,
           !.body = IF i # 0 /\ r.router[i].handler = "health" THEN "OK" ELSE ""])
  /\ UNCHANGED <<stores, calls, unhandled, failures, http>>

NextRoute ==
  \/ \E router \in Routers, method \in {"GET", "POST"}, path \in Paths :
       Receive(router, method, path)
  \/ Dispatch

SpecRoute == Init /\ [][NextRoute]_vars

(***************************************************************************)
(* Properties of the ingestion (Spec)                                      *)
(***************************************************************************)
Batches(c) == 1..Len(calls[c].batches)

\* C1: in every reachable state, whatever the interleaving of saveMetrics
\* calls, each store holds at most one entity for any (source, date).
C1_UniqueKeyPerStore ==
  \A h \in Handles(stores) : \A d1, d2 \in stores[h].docs : Key(d1) = Key(d2) => d1 = d2

\* Two calls write the same store at the same time: call 1 is half way through
\* a batch whose next entity has a key that is stored already, call 2 has
\* written too, and the store holds one entity.
C1_Witness ==
  \E b1 \in Batches(1), b2 \in Batches(2) :
    /\ calls[1].batches[b1].h = calls[2].batches[b2].h
    /\ calls[1].batches[b1].st = "inflight"
    /\ calls[1].batches[b1].written = 1
    /\ calls[2].batches[b2].written >= 1
    /\ Matching(stores[calls[1].batches[b1].h].docs, Head(calls[1].batches[b1].ops)) # {}
    /\ Cardinality(stores[calls[1].batches[b1].h].docs) = 1

\* The step in which batch b of call c writes an entity whose (source, date)
\* is stored already.
Overwrite(c, b) ==
  /\ b \in Batches(c)
  /\ WriteStep(c, b)
  /\ Matching(stores[calls[c].batches[b].h].docs, Head(calls[c].batches[b].ops)) # {}

\* C2 as stated: after a write onto an existing (source, date) the stored entity
\* has exactly the fields and values of the incoming entity.
C2_FullOverwrite ==
  [][\A c \in Calls, b \in 1..MaxRecords :
       Overwrite(c, b) =>
         LET h == calls[c].batches[b].h
             metric == Head(calls[c].batches[b].ops)
         IN  Matching(stores'[h].docs, metric) = {metric}]_vars

\* C2 amended: after a write onto an existing (source, date) one entity is
\* stored under that key; every field of the incoming entity has the incoming
\* value, and every field only the stored entity had is kept with its value.
C2_MergeOverwrite ==
  [][\A c \in Calls, b \in 1..MaxRecords :
       Overwrite(c, b) =>
         LET h == calls[c].batches[b].h
             metric == Head(calls[c].batches[b].ops)
             old == CHOOSE d \in Matching(stores[h].docs, metric) : TRUE
         IN  \E d \in stores'[h].docs :
               /\ Matching(stores'[h].docs, metric) = {d}
               /\ DOMAIN d = DOMAIN old \cup DOMAIN metric
               /\ \A f \in DOMAIN metric : d[f] = metric[f]
               /\ \A f \in DOMAIN old \ DOMAIN metric : d[f] = old[f]]_vars

\* An entity written twice with different fields: it carries the fields of both.
C2_Witness ==
  \E h \in Handles(stores) : \E d \in stores[h].docs :
    /\ {"qty", "units"} \subseteq DOMAIN d
    /\ d.source = "A" /\ d.date = 1

\* C3 as stated, for the calls that have reached Promise.all: a call has
\* returned its response only when every batch it launched has settled.
C3_ResponseAfterAllSettled ==
  \A c \in Calls :
    (calls[c].resp # None /\ calls[c].joined) =>
      \A b \in Batches(c) : calls[c].batches[b].st # "inflight"

\* C3 amended: one batch per metric type; the success response is returned only
\* after every batch of the call has completed; the failure response is
\* returned as soon as one batch has failed, other batches may be in flight.
C3_JoinOnSuccessOnly ==
  \A c \in Calls :
    /\ \A b1, b2 \in Batches(c) :
         calls[c].batches[b1].name = calls[c].batches[b2].name => b1 = b2
    /\ calls[c].st = "awaiting" => calls[c].resp = None
    /\ (calls[c].resp # None /\ calls[c].joined) =>
         IF calls[c].resp[1].success
         THEN \A b \in Batches(c) : calls[c].batches[b].st = "ok"
         ELSE \E b \in Batches(c) : calls[c].batches[b].st = "failed"

\* Call 1 has answered success with its two batches complete; call 2 has
\* answered failure with one batch failed and the other still in flight.
C3_Witness ==
  /\ calls[1].resp # None /\ calls[1].joined /\ calls[1].resp[1].success
  /\ Len(calls[1].batches) = 2
  /\ calls[2].resp # None /\ calls[2].joined /\ ~calls[2].resp[1].success
  /\ \E b1, b2 \in Batches(2) :
       calls[2].batches[b1].st = "failed" /\ calls[2].batches[b2].st = "inflight"

\* C4: a call in which a step failed returns success = false, and no failure
\* of a write it launched is left without a handler.
C4_FailureReturnedNeverUnhandled ==
  /\ \A c \in Calls :
       (calls[c].st = "returned" /\ (SomeRejected(calls[c]) \/ ~calls[c].joined)
          /\ calls[c].n > 0)
         => ~calls[c].resp[1].success
  /\ unhandled = {}

\* A batch of zero entities that has settled or is yet to settle.
ZeroEntities(batch) == batch.written = 0 /\ batch.ops = <<>>

\* C5 as stated: a call whose batches all have zero entities (or that has no
\* record at all) is reported as no data: not a failure, and not as a save.
C5_ZeroEntitiesReportedNoData ==
  \A c \in Calls :
    (/\ calls[c].st = "returned"
     /\ calls[c].n = 0 \/ calls[c].joined
     /\ \A b \in Batches(c) : ZeroEntities(calls[c].batches[b]))
    => (calls[c].resp[1].success /\ "message" \notin DOMAIN calls[c].resp[1])

\* C5 amended: a call with no record at all returns at once, reports no data
\* (success, an error text and no message of a save) and changes no store.
C5_NoRecordsReportedNoData ==
  [][\A c \in Calls :
       (calls[c].st = "idle" /\ calls'[c].st # "idle" /\ calls'[c].n = 0) =>
         /\ calls'[c].st = "returned"
         /\ calls'[c].resp # None
         /\ calls'[c].resp[1].success
         /\ "error" \in DOMAIN calls'[c].resp[1]
         /\ "message" \notin DOMAIN calls'[c].resp[1]
         /\ calls'[c].batches = <<>>
         /\ stores' = stores]_vars

\* A call without records has returned while the other call has stored data.
C5_Witness ==
  \E c, d \in Calls :
    /\ calls[c].st = "returned" /\ calls[c].n = 0 /\ calls[c].resp = Some(NoData)
    /\ calls[d].n > 0
    /\ \E h \in Handles(stores) : stores[h].docs # {}

(***************************************************************************)
(* Properties of store resolution and discovery (SpecStores)               *)
(***************************************************************************)
GotMetrics == http # None /\ http[1].op = "getMetrics" /\ http[1].status = 200

\* C6: a metric type that is not statically known has exactly one store of
\* its name, and every saveMetrics batch and every getMetrics query naming the
\* type uses that store.
C6_OneStorePerUnknownType ==
  /\ \A h1, h2 \in Handles(stores) : stores[h1].name = stores[h2].name => h1 = h2
  /\ \A c \in Calls : \A b \in Batches(c) :
       calls[c].batches[b].name \notin KnownTypes =>
         StoresNamed(stores, calls[c].batches[b].name) = {calls[c].batches[b].h}
  /\ (GotMetrics /\ http[1].req.metric \notin KnownTypes) =>
       StoresNamed(stores, http[1].req.metric) = {http[1].h}

\* Both calls have a batch for StepCount, the first still in flight when the
\* second was launched, and a query for StepCount has been answered: all three
\* use one store, created for the type.
C6_Witness ==
  /\ GotMetrics /\ http[1].req.metric = "StepCount"
  /\ \E b1 \in Batches(1), b2 \in Batches(2) :
       /\ calls[1].batches[b1].name = "StepCount"
       /\ calls[2].batches[b2].name = "StepCount"
       /\ calls[1].batches[b1].st = "inflight"
       /\ calls[1].batches[b1].h = calls[2].batches[b2].h
       /\ calls[1].batches[b1].h = http[1].h
       /\ http[1].h > Len(InitialStores)

StrictlySorted(names) ==
  \A i, j \in 1..Len(names) : i < j => StrLess(names[i], names[j])

\* The metric types whose store has received data, reserved stores left out.
TypesWithData(st) ==
  {st[h].name : h \in {k \in Handles(st) : st[k].docs # {} /\ ~startsWith(st[k].name, "system.")}}

\* No bulk write is under way.
Quiescent == \A c \in Calls : \A b \in Batches(c) : calls[c].batches[b].st # "inflight"

\* C9, for the listings made while no write is under way: the list
\* getAvailableMetrics returns is sorted, free of duplicates, and holds exactly
\* the metric types whose store has received data.
C9_ListsExactlyTypesWithData ==
  [][(Quiescent /\ http' # http /\ http' # None /\ http'[1].op = "getAvailableMetrics"
        /\ http'[1].status = 200) =>
       (/\ StrictlySorted(http'[1].metrics)
        /\ Range(http'[1].metrics) = TypesWithData(stores))]_vars

(***************************************************************************)
(* Properties of the queries (SpecQuery)                                   *)
(***************************************************************************)
\* The entries of a source parameter: its comma separated pieces, trimmed, the
\* empty ones left out, and with them the pieces in `dropped`.
SourceEntries(text, dropped) ==
  {trim(piece) : piece \in Range(split(text, ","))} \ ({""} \cup dropped)

\* Whether a source parameter admits an entity.
SourceAdmits(source, d, dropped) ==
  IF source = None \/ source[1] \in {"", "$__all", "All"}
  THEN TRUE
  ELSE LET entries == SourceEntries(source[1], dropped)
       IN  entries = {} \/ d.source \in entries

\* What the query finds with its date condition alone.
DateFiltered ==
  find(stores[http[1].h].docs,
       DateQuery(parseDate(http[1].req.from), parseDate(http[1].req.to)), None)

\* What the query finds with its source condition alone.
SourceFiltered ==
  find(stores[http[1].h].docs, None, SourceQuery(http[1].req.source))

\* C7 as stated: $__all and All as the whole parameter switch the filter off;
\* otherwise the result holds exactly the entities whose source is one of the
\* trimmed, non-empty entries, and all of them when no entry remains.
C7_SourceFilterAsStated ==
  GotMetrics =>
    http[1].body = {d \in DateFiltered : SourceAdmits(http[1].req.source, d, {})}

\* C7 amended: as stated, with the entries equal to $__all left out as the
\* empty ones are.
C7_SourceFilter ==
  GotMetrics =>
    http[1].body = {d \in DateFiltered : SourceAdmits(http[1].req.source, d, {"$__all"})}

\* A query for the sources "A,$__all": the entities of source A, and no other.
C7_Witness ==
  /\ GotMetrics
  /\ http[1].req.source = Some("A,$__all")
  /\ http[1].req.from = None
  /\ http[1].body = {d \in QueryDocs : d.source = "A"}

\* C8: when from and to both parse, the result holds exactly the entities
\* with from <= date <= to; when one of them is absent or does not parse, the
\* date does not restrict the result.
C8_DateRangeAllOrNothing ==
  GotMetrics =>
    LET from == parseDate(http[1].req.from)
        to == parseDate(http[1].req.to)
    IN  http[1].body =
          {d \in SourceFiltered :
             (from # None /\ to # None) => (from[1] <= d.date /\ d.date <= to[1])}

\* A query from the second day to the third: the entities of these two days,
\* those of the bounds included.
C8_Witness ==
  /\ GotMetrics
  /\ http[1].req.from = Some(DateTexts[2]) /\ http[1].req.to = Some(DateTexts[3])
  /\ http[1].req.source = None
  /\ http[1].body = {d \in QueryDocs : d.date \in {2, 3}}

(***************************************************************************)
(* Properties of the routers (SpecRoute)                                   *)
(***************************************************************************)
\* C10: the workouts router dispatches to the first route registered that
\* matches, and GET /health is answered by the health handler: 200, OK.
C10_HealthAnswered ==
  (routed # None /\ routed[1].st = "answered" /\ routed[1].router = workoutsRouter) =>
    /\ \A i \in 1..Len(workoutsRouter) :
         (/\ Matches(workoutsRouter[i], routed[1].method, routed[1].path)
          /\ \A j \in 1..(i - 1) : ~Matches(workoutsRouter[j], routed[1].method, routed[1].path))
         => routed[1].handler = workoutsRouter[i].handler
    /\ (routed[1].method = "GET" /\ routed[1].path = "/health") =>
         (routed[1].handler = "health" /\ routed[1].status = 200 /\ routed[1].body = "OK")

====
